---- MODULE Spec2Model ----
\* A model of patent_extractor: extract_doc_numbers (extractor.py) and the
\* parsing helpers it is built from (parser.py).
\*
\* Strings are sequences of one-character strings, so that lower(), strip(),
\* replace() and string comparison are computed and not assumed.  An element
\* is a record [tag, attrib, text, children]; its tag is the sequence of the
\* tokens of lxml's "{uri}local" form (<<"{", uri, "}", local>>, or <<local>>
\* without a namespace).  An element's identity is its path from the root
\* (the sequence of child positions), which is what lxml's element equality
\* (identity of the node) distinguishes.
EXTENDS Integers, Sequences, FiniteSets, TLC

\* ---------------------------------------------------------------- bounds

\* The most document-id elements of an input document.
MaxDocIds == 3
\* The most application-reference elements of an input document.
MaxGroups == 2
\* The longest doc-number text of the text-content inputs.
MaxTextLen == 3
\* The most document-id elements of the inputs that vary one element's
\* attribute or text.
MaxFewIds == 2

\* ---------------------------------------------------------------- strings

\* Python's None where a string is expected: "None" is no character, so this
\* is no string.
None == <<"None">>

\* The characters of the model in ascending code-point order.
CodePoints ==
    <<"\t", "\n", " ", "-", "0", "1", "2", "3", "4", "5", "6", "7", "8", "9",
      "A", "B", "C", "D", "E", "F", "G", "H", "I", "J", "K", "L", "M", "N",
      "O", "P", "Q", "R", "S", "T", "U", "V", "W", "X", "Y", "Z", "_",
      "a", "b", "c", "d", "e", "f", "g", "h", "i", "j", "k", "l", "m", "n",
      "o", "p", "q", "r", "s", "t", "u", "v", "w", "x", "y", "z">>

Chars == {CodePoints[i] : i \in 1..Len(CodePoints)}

\* The place of each character in that order.
Ord == [c \in Chars |-> CHOOSE i \in 1..Len(CodePoints) : CodePoints[i] = c]

\* str.lower() on one character: "a".."z" are 27 places after "A".."Z", "_"
\* lying between them.
LowerChar ==
    [c \in Chars |->
        IF Ord[c] >= Ord["A"] /\ Ord[c] <= Ord["Z"]
        THEN CodePoints[Ord[c] + 27]
        ELSE c]

\* str.lower()
Lower(s) == [i \in 1..Len(s) |-> LowerChar[s[i]]]

\* The characters str.strip() removes.
IsSpace(c) == c \in {" ", "\t", "\n"}

RECURSIVE LStrip(_)
LStrip(s) ==
    IF s # <<>> /\ IsSpace(Head(s)) THEN LStrip(Tail(s)) ELSE s

RECURSIVE RStrip(_)
RStrip(s) ==
    IF s # <<>> /\ IsSpace(s[Len(s)])
    THEN RStrip(SubSeq(s, 1, Len(s) - 1))
    ELSE s

\* str.strip()
Strip(s) == RStrip(LStrip(s))

\* str.replace(old, new) for one-character old and new.
Replace(s, old, new) == [i \in 1..Len(s) |-> IF s[i] = old THEN new ELSE s[i]]

\* Python's s < t on strings: by code point, a proper prefix first.
RECURSIVE StrLess(_, _)
StrLess(s, t) ==
    IF t = <<>> THEN FALSE
    ELSE IF s = <<>> THEN TRUE
    ELSE IF Head(s) = Head(t) THEN StrLess(Tail(s), Tail(t))
    ELSE Ord[Head(s)] < Ord[Head(t)]

StrLeq(s, t) == s = t \/ StrLess(s, t)

\* The strings over alphabet of length at most n.
StringsUpTo(alphabet, n) == UNION {[1..k -> alphabet] : k \in 0..n}

\* ---------------------------------------------------------------- elements

\* lxml's tag of an element: "{uri}local", or "local" without a namespace.
Tag(ns, local) == IF ns = "" THEN <<local>> ELSE <<"{", ns, "}", local>>

Element(tag, attrib, text, children) ==
    [tag |-> tag, attrib |-> attrib, text |-> text, children |-> children]

\* None where an element is expected: no path holds a 0.
NoElem == <<0>>

\* The element at a path below (or at) elem.
RECURSIVE ElemAt(_, _)
ElemAt(elem, path) ==
    IF path = <<>> THEN elem
    ELSE ElemAt(elem.children[Head(path)], Tail(path))

\* Element.iter(): the element at path and its descendants, in document order.
RECURSIVE IterFrom(_, _, _)
IterFrom(elem, path, i) ==
    IF i = 0 THEN <<path>> \o IterFrom(elem, path, 1)
    ELSE IF i > Len(elem.children) THEN <<>>
    ELSE IterFrom(elem.children[i], Append(path, i), 0) \o IterFrom(elem, path, i + 1)

Iter(tree, path) == IterFrom(ElemAt(tree, path), path, 0)

\* Element.findall(".//" + tag_name): the descendants (not the element itself)
\* whose tag is tag_name with no namespace, in document order.
FindAll(tree, path, tag_name) ==
    LET HasTag(p) == ElemAt(tree, p).tag = <<tag_name>>
    IN  SelectSeq(Tail(Iter(tree, path)), HasTag)

\* tag_str.split("}")[-1] if "}" in tag_str else tag_str
RECURSIVE LocalName(_)
LocalName(tag) ==
    IF \E i \in 1..Len(tag) : tag[i] = "}" THEN LocalName(Tail(tag))
    ELSE tag[1]

\* The loop over root.iter() without "and elem not in results".
RECURSIVE LocalNamePassAppendAll(_, _, _, _)
LocalNamePassAppendAll(tree, todo, tag_name, results) ==
    IF todo = <<>> THEN results
    ELSE LocalNamePassAppendAll(tree, Tail(todo), tag_name,
             IF LocalName(ElemAt(tree, Head(todo)).tag) = tag_name
             THEN Append(results, Head(todo))
             ELSE results)

\* The loop of find_elements_with_namespace_handling over root.iter(): every
\* element whose local name is tag_name is appended unless it is in results.
RECURSIVE LocalNamePass(_, _, _, _)
LocalNamePass(tree, todo, tag_name, results) ==
    IF todo = <<>> THEN results
    ELSE LET elem == Head(todo)
             InResults == \E k \in 1..Len(results) : results[k] = elem
         IN  LocalNamePass(tree, Tail(todo), tag_name,
                 IF LocalName(ElemAt(tree, elem).tag) = tag_name /\ ~InResults
                 THEN Append(results, elem)
                 ELSE results)

\* find_elements_with_namespace_handling(root, tag_name), root being the
\* element at path; namespace_map is None at every call.
find_elements_with_namespace_handling(tree, path, tag_name) ==
    LocalNamePass(tree, Iter(tree, path), tag_name, FindAll(tree, path, tag_name))

\* Element.find replaced by the first child whatever its tag, element[0].
FindFirstChild(tree, path, tag_name) ==
    IF ElemAt(tree, path).children = <<>> THEN NoElem ELSE Append(path, 1)

\* Element.find(tag_name): the first child whose tag is tag_name with no
\* namespace, or None.
Find(tree, path, tag_name) ==
    LET kids == ElemAt(tree, path).children
        hits == {i \in 1..Len(kids) : kids[i].tag = <<tag_name>>}
    IN  IF hits = {} THEN NoElem
        ELSE Append(path, CHOOSE i \in hits : \A j \in hits : i <= j)

\* ---------------------------------------------------------------- parser.py

\* normalize_attribute_name without its replace("-", "_").
normalize_attribute_name_case_only(name) == Lower(name)

\* normalize_attribute_name
normalize_attribute_name(name) ==
    Replace(Replace(Lower(name), "-", "_"), "_", "_")

\* normalize_attribute_value
normalize_attribute_value(value) ==
    IF value # <<>> THEN Lower(Strip(value)) ELSE <<>>

\* The loop of get_normalized_attribute over element.attrib.items(): the
\* value of the first attribute whose normalized name is normalized_attr.
RECURSIVE AttribLoop(_, _)
AttribLoop(items, normalized_attr) ==
    IF items = <<>> THEN None
    ELSE IF normalize_attribute_name(Head(items)[1]) = normalized_attr
         THEN normalize_attribute_value(Head(items)[2])
         ELSE AttribLoop(Tail(items), normalized_attr)

\* get_normalized_attribute
get_normalized_attribute(element, attr_name) ==
    IF element.attrib = <<>> THEN None
    ELSE AttribLoop(element.attrib, normalize_attribute_name(attr_name))

\* A text of the recovered tree that is no valid UTF-8: reading element.text
\* raises UnicodeDecodeError.  It is no string.
Undecodable == <<"Undecodable">>

\* extract_text_content stripping the left side only, lstrip().
extract_text_content_lstrip(element) ==
    LStrip(IF element.text = None THEN <<>> ELSE element.text)

\* extract_text_content of an element that is not None: (element.text or
\* "").strip(); the tail is read and dropped.
extract_text_content(element) ==
    Strip(IF element.text = None THEN <<>> ELSE element.text)

\* ---------------------------------------------------------------- extractor.py

epo == <<"e", "p", "o">>
docdb == <<"d", "o", "c", "d", "b">>
patent_office_hyphen == <<"p", "a", "t", "e", "n", "t", "-", "o", "f", "f", "i", "c", "e">>
patent_office_underscore == <<"p", "a", "t", "e", "n", "t", "_", "o", "f", "f", "i", "c", "e">>
patentoffice == <<"p", "a", "t", "e", "n", "t", "o", "f", "f", "i", "c", "e">>
unknown == <<"u", "n", "k", "n", "o", "w", "n">>
load_source_name == <<"l", "o", "a", "d", "-", "s", "o", "u", "r", "c", "e">>

\* PRIORITY_MAP without the key "patent-office", the form
\* normalize_load_source returns.
PRIORITY_MAP_no_hyphen ==
    (epo :> 0) @@ (docdb :> 0) @@ (patent_office_underscore :> 1) @@ (patentoffice :> 1)

PRIORITY_MAP ==
    (epo :> 0) @@ (docdb :> 0) @@ (patent_office_hyphen :> 1)
    @@ (patent_office_underscore :> 1) @@ (patentoffice :> 1)

DEFAULT_PRIORITY == 99

\* normalize_load_source
normalize_load_source(load_source) ==
    LET normalized == Strip(Lower(load_source))
    IN  IF normalized \in {epo, docdb} THEN epo
        ELSE IF normalized \in {patent_office_hyphen, patent_office_underscore, patentoffice}
             THEN patent_office_hyphen
             ELSE normalized

\* get_priority
get_priority(load_source) ==
    LET normalized == normalize_load_source(load_source)
    IN  IF normalized \in DOMAIN PRIORITY_MAP
        THEN PRIORITY_MAP[normalized]
        ELSE DEFAULT_PRIORITY

\* What stands for the tuple when extract_doc_number_from_document_id raises
\* ExtractionError (lines 110-112) and returns none.
Raised == <<<<"ExtractionError">>>>

\* extract_doc_number_from_document_id: the tuple (doc_number, priority,
\* load_source) it returns for the document-id element at path, or Raised
\* when reading the text of the doc-number child raises.
extract_doc_number_from_document_id(tree, path) ==
    LET attr == get_normalized_attribute(ElemAt(tree, path), load_source_name)
        load_source == IF attr = None \/ attr = <<>> THEN unknown ELSE attr
        doc_number_elem == Find(tree, path, "doc-number")
        doc_number == extract_text_content(ElemAt(tree, doc_number_elem))
    IN  IF doc_number_elem = NoElem THEN <<None, DEFAULT_PRIORITY, load_source>>
        ELSE IF ElemAt(tree, doc_number_elem).text = Undecodable THEN Raised
        ELSE IF doc_number = <<>> THEN <<None, DEFAULT_PRIORITY, load_source>>
        ELSE <<doc_number, get_priority(load_source), load_source>>

\* The sort key cut to the priority, key=lambda x: x[1].
KeyLessPriorityOnly(a, b) == a[2] < b[2]

\* The sort key of extract_doc_numbers, (x[1], x[0]), compared as Python
\* compares tuples.
KeyLess(a, b) == a[2] < b[2] \/ (a[2] = b[2] /\ StrLess(a[1], b[1]))

\* One insertion of a stable sort: x goes before the first entry whose key is
\* greater than its own.
RECURSIVE InsertByKey(_, _)
InsertByKey(sorted, x) ==
    IF sorted = <<>> THEN <<x>>
    ELSE IF KeyLess(x, Head(sorted)) THEN <<x>> \o sorted
    ELSE <<Head(sorted)>> \o InsertByKey(Tail(sorted), x)

\* list.sort(key=lambda x: (x[1], x[0])): a stable sort.
RECURSIVE SortEntries(_)
SortEntries(entries) ==
    IF entries = <<>> THEN <<>>
    ELSE InsertByKey(SortEntries(SubSeq(entries, 1, Len(entries) - 1)),
                     entries[Len(entries)])

\* [doc_number for doc_number, _, _ in doc_number_entries]
DocNumbersOf(entries) == [i \in 1..Len(entries) |-> entries[i][1]]

\* Lines 168-187: the returned tuple is appended when its doc_number is
\* neither None nor empty; when the extraction raised, the handlers go on to
\* the next element and nothing is appended.
Collect(entries, returned) ==
    IF returned = Raised THEN entries
    ELSE IF returned[1] # None /\ returned[1] # <<>>
    THEN Append(entries, returned)
    ELSE entries

\* The inner loop of extract_doc_numbers over the document-id elements ids.
RECURSIVE CollectIds(_, _, _)
CollectIds(tree, ids, entries) ==
    IF ids = <<>> THEN entries
    ELSE CollectIds(tree, Tail(ids),
             Collect(entries, extract_doc_number_from_document_id(tree, Head(ids))))

\* The outer loop of extract_doc_numbers over the groups refs.
RECURSIVE CollectGroups(_, _, _)
CollectGroups(tree, refs, entries) ==
    IF refs = <<>> THEN entries
    ELSE CollectGroups(tree, Tail(refs),
             CollectIds(tree,
                 find_elements_with_namespace_handling(tree, Head(refs), "document-id"),
                 entries))

\* extract_doc_numbers on a parsed tree, lines 151-202, as one function.
ExtractFromTree(tree) ==
    LET refs == find_elements_with_namespace_handling(tree, <<>>, "application-reference")
        entries == CollectGroups(tree, refs, <<>>)
    IN  IF refs = <<>> THEN <<>>
        ELSE IF entries = <<>> THEN <<>>
        ELSE DocNumbersOf(SortEntries(entries))

\* ---------------------------------------------------------------- inputs

\* A document-id element as the sample documents write it: a country child,
\* then the children given.
DocumentId(ns, attrib, children) ==
    Element(Tag(ns, "document-id"), attrib, None,
            <<Element(<<"country">>, <<>>, <<"U", "S">>, <<>>)>> \o children)

DocNumber(ns, text) == Element(Tag(ns, "doc-number"), <<>>, text, <<>>)

\* The layouts of n document-id elements over groups application-reference
\* elements: layout[i] is the group of the i-th document-id in document
\* order, 0 for one that is a child of the root and in no group.
Layouts(n, lowest, groups) ==
    {layout \in [1..n -> lowest..groups] : \A i \in 1..(n - 1) : layout[i] <= layout[i + 1]}

\* The document-id elements a layout puts in group j, in document order.
Members(ids, layout, j) ==
    LET Idx == {i \in 1..Len(ids) : layout[i] = j}
        first == CHOOSE i \in Idx : \A k \in Idx : i <= k
    IN  IF Idx = {} THEN <<>>
        ELSE [k \in 1..Cardinality(Idx) |-> ids[first + k - 1]]

\* The document: the root, the document-id elements outside every group, and
\* the application-reference elements with theirs.
Document(ids, layout, groups, ns) ==
    Element(<<"root">>, <<>>, None,
            Members(ids, layout, 0)
            \o [j \in 1..groups |->
                   Element(Tag(ns, "application-reference"), <<>>, None,
                           Members(ids, layout, j))])

\* A path on disk: whether it exists, is a regular file and can be opened
\* for reading, and the tree lxml's recovering parser makes of its content
\* (<<>> when it raises XMLSyntaxError).
File(exists, is_file, can_open, tree) ==
    [exists |-> exists, is_file |-> is_file, can_open |-> can_open, tree |-> tree]

\* A missing path, a directory, a readable device or pipe, a file without
\* read permission, and a regular file of unparseable content.
BadFiles ==
    {File(FALSE, FALSE, FALSE, <<>>),
     File(TRUE, FALSE, FALSE, <<>>),
     File(TRUE, FALSE, TRUE, <<>>),
     File(TRUE, FALSE, TRUE, <<Element(<<"root">>, <<>>, None, <<>>)>>),
     File(TRUE, TRUE, FALSE, <<>>),
     File(TRUE, TRUE, TRUE, <<>>)}

\* ---------------------------------------------------------------- state

VARIABLES
    file,               \* the path extract_doc_numbers is called with
    pc,                 \* where the call is: start, parsed, groups, ids, done, failed
    root,               \* <<the parsed root>>, <<>> before parse_xml_file returns
    application_refs,   \* the application-reference elements found
    app_ref,            \* the position of the outer loop in application_refs
    document_ids,       \* the document-id elements found in the current group
    doc_id,             \* the position of the inner loop in document_ids
    extracted,          \* the tuple the last single-record extraction returned
    doc_number_entries, \* the records collected so far
    result,             \* the list returned, once pc is done
    error               \* the exception raised, once pc is failed

vars ==
    <<file, pc, root, application_refs, app_ref, document_ids, doc_id,
      extracted, doc_number_entries, result, error>>

\* No tuple returned yet.
NoTuple == <<>>

\* The call is entered with a bad path or with a regular, readable file
\* holding a document of at most maxIds document-id elements drawn from
\* kinds, in at most maxGroups groups, the groups in a namespace of nss;
\* lowest is 0 when document-id elements may lie outside the groups and 1
\* when not.
InitOf(kinds, nss, maxIds, lowest, maxGroups) ==
    /\ \/ file \in BadFiles
       \/ \E n \in 0..maxIds, groups \in 0..maxGroups, ns \in nss :
             \E ids \in [1..n -> kinds], layout \in Layouts(n, lowest, groups) :
               file = File(TRUE, TRUE, TRUE, <<Document(ids, layout, groups, ns)>>)
    /\ pc = "start"
    /\ root = <<>>
    /\ application_refs = <<>>
    /\ app_ref = 0
    /\ document_ids = <<>>
    /\ doc_id = 0
    /\ extracted = NoTuple
    /\ doc_number_entries = <<>>
    /\ result = <<>>
    /\ error = ""

\* parse_xml_file without its is_file() test.
parse_xml_file_any_kind(f) ==
    IF ~f.exists THEN "FileError"
    ELSE IF ~f.can_open THEN "FileError"
    ELSE IF f.tree = <<>> THEN "XMLParseError"
    ELSE ""

\* parse_xml_file: the exception it raises, "" when it returns the tree.
\* Opening fails alike for each of ENCODINGS_TO_TRY, and latin-1 decodes any
\* bytes, so content is None exactly when the path cannot be opened.
parse_xml_file(f) ==
    IF ~f.exists THEN "FileError"
    ELSE IF ~f.is_file THEN "FileError"
    ELSE IF ~f.can_open THEN "FileError"
    ELSE IF f.tree = <<>> THEN "XMLParseError"
    ELSE ""

\* extract_doc_numbers, lines 144-149: root = parse_xml_file(file_path), its
\* exceptions re-raised.
ParseXmlFile ==
    /\ pc = "start"
    /\ LET raised == parse_xml_file(file)
       IN  IF raised # ""
           THEN /\ error' = raised
                /\ pc' = "failed"
                /\ root' = root
           ELSE /\ root' = file.tree
                /\ pc' = "parsed"
                /\ error' = error
    /\ UNCHANGED <<file, application_refs, app_ref, document_ids, doc_id,
                   extracted, doc_number_entries, result>>

\* Lines 151-157 falling back on the root as the only group when there is no
\* application-reference element.
FindApplicationRefsOrRoot ==
    /\ pc = "parsed"
    /\ LET found == find_elements_with_namespace_handling(
                        root[1], <<>>, "application-reference")
       IN  application_refs' = IF found = <<>> THEN <<<<>>>> ELSE found
    /\ pc' = "groups"
    /\ app_ref' = 1
    /\ UNCHANGED <<file, root, document_ids, doc_id, extracted,
                   doc_number_entries, result, error>>

\* Lines 151-157: the application-reference elements; none ends the call
\* with an empty list.
FindApplicationRefs ==
    /\ pc = "parsed"
    /\ LET found == find_elements_with_namespace_handling(
                        root[1], <<>>, "application-reference")
       IN  /\ application_refs' = found
           /\ IF found = <<>>
              THEN pc' = "done" /\ result' = <<>> /\ app_ref' = app_ref
              ELSE pc' = "groups" /\ result' = result /\ app_ref' = 1
    /\ UNCHANGED <<file, root, document_ids, doc_id, extracted,
                   doc_number_entries, error>>

\* Lines 162-165: the document-id elements of the next group.
FindDocumentIds ==
    /\ pc = "groups"
    /\ app_ref <= Len(application_refs)
    /\ document_ids' = find_elements_with_namespace_handling(
                            root[1], application_refs[app_ref], "document-id")
    /\ doc_id' = 1
    /\ pc' = "ids"
    /\ UNCHANGED <<file, root, application_refs, app_ref, extracted,
                   doc_number_entries, result, error>>

\* Lines 167-187 with handlers that raise again: an ExtractionError ends the
\* call.
ExtractDocIdOrAbort ==
    /\ pc = "ids"
    /\ doc_id <= Len(document_ids)
    /\ LET returned == extract_doc_number_from_document_id(root[1], document_ids[doc_id])
       IN  IF returned = Raised
           THEN /\ error' = "ExtractionError"
                /\ pc' = "failed"
                /\ UNCHANGED <<extracted, doc_number_entries, doc_id>>
           ELSE /\ extracted' = returned
                /\ doc_number_entries' = Collect(doc_number_entries, returned)
                /\ doc_id' = doc_id + 1
                /\ UNCHANGED <<pc, error>>
    /\ UNCHANGED <<file, root, application_refs, app_ref, document_ids, result>>

\* Lines 167-187: one document-id element; its record is kept when its
\* doc_number is neither None nor empty.  When the extraction raises, the
\* tuple is not assigned and the loop goes on with the next element.
ExtractDocId ==
    /\ pc = "ids"
    /\ doc_id <= Len(document_ids)
    /\ LET returned == extract_doc_number_from_document_id(root[1], document_ids[doc_id])
       IN  /\ extracted' = IF returned = Raised THEN extracted ELSE returned
           /\ doc_number_entries' = Collect(doc_number_entries, returned)
    /\ doc_id' = doc_id + 1
    /\ UNCHANGED <<file, pc, root, application_refs, app_ref, document_ids,
                   result, error>>

\* Line 167, the inner loop exhausted: on to the next group.
NextGroup ==
    /\ pc = "ids"
    /\ doc_id > Len(document_ids)
    /\ app_ref' = app_ref + 1
    /\ pc' = "groups"
    /\ UNCHANGED <<file, root, application_refs, document_ids, doc_id,
                   extracted, doc_number_entries, result, error>>

\* Lines 189-202: no record returns the empty list; otherwise the records
\* are sorted and their doc-numbers returned.
Return ==
    /\ pc = "groups"
    /\ app_ref > Len(application_refs)
    /\ IF doc_number_entries = <<>>
       THEN /\ result' = <<>>
            /\ doc_number_entries' = doc_number_entries
       ELSE /\ doc_number_entries' = SortEntries(doc_number_entries)
            /\ result' = DocNumbersOf(SortEntries(doc_number_entries))
    /\ pc' = "done"
    /\ UNCHANGED <<file, root, application_refs, app_ref, document_ids,
                   doc_id, extracted, error>>

Next ==
    \/ ParseXmlFile
    \/ FindApplicationRefs
    \/ FindDocumentIds
    \/ ExtractDocId
    \/ NextGroup
    \/ Return

\* ---------------------------------------------------------------- specifications

mxw_id == <<<<"m", "x", "w", "-", "i", "d">>, <<"A", "1">>>>
patent_office_mixed == <<"P", "a", "t", "e", "n", "t", "_", "O", "f", "f", "i", "c", "e">>
uspto == <<"u", "s", "p", "t", "o">>

\* A well-formed document-id: the attributes mxw-id and load-source, the
\* children country and doc-number.
Plain(source, text) ==
    DocumentId("", <<mxw_id, <<load_source_name, source>>>>, <<DocNumber("", text)>>)

\* The document-id elements of the ordering inputs: both first-priority
\* sources, both spellings of the second and an unknown one, with doc-numbers
\* whose string order disagrees with their priority order.
OrderKinds ==
    {Plain(epo, <<"2">>), Plain(docdb, <<"1", "2">>),
     Plain(patent_office_hyphen, <<"1">>), Plain(patent_office_mixed, <<"1", "2">>),
     Plain(uspto, <<"1">>)}

Init == InitOf(OrderKinds, {""}, MaxDocIds, 1, MaxGroups)

Spec == Init /\ [][Next]_vars

\* The call returns what the function of the tree returns.
StepsAgree == pc = "done" => result = ExtractFromTree(root[1])

\* The ordering inputs cut to three kinds, two of them of one priority.
PermKinds ==
    {Plain(epo, <<"2">>), Plain(docdb, <<"1", "2">>), Plain(patent_office_hyphen, <<"1">>)}

InitPerm == InitOf(PermKinds, {""}, MaxDocIds, 1, MaxGroups)

SpecPerm == InitPerm /\ [][Next]_vars

\* The document-id elements of the incomplete inputs: a complete one, one
\* with attributes but no load-source, one with no attribute at all, and one
\* with no doc-number child.
SkipKinds ==
    {Plain(patent_office_hyphen, <<"1">>),
     DocumentId("", <<mxw_id>>, <<DocNumber("", <<"2">>)>>),
     DocumentId("", <<>>, <<DocNumber("", <<"1", "2">>)>>),
     DocumentId("", <<mxw_id, <<load_source_name, epo>>>>, <<>>)}

\* Incomplete document-id elements, inside the groups and outside them.
InitSkip == InitOf(SkipKinds, {""}, MaxDocIds, 0, MaxGroups)

SpecSkip == InitSkip /\ [][Next]_vars

\* A document-id with its load-source attribute and its doc-number child,
\* each in the namespace given or in none.
Qualified(ns, childNs, source, text) ==
    DocumentId(ns, <<mxw_id, <<load_source_name, source>>>>, <<DocNumber(childNs, text)>>)

\* The document-id elements of the namespaced inputs: parent and child with
\* and without a namespace.
NsKinds ==
    {Qualified("", "", epo, <<"2">>),
     Qualified("", "ns", patent_office_hyphen, <<"1">>),
     Qualified("ns", "ns", epo, <<"1", "2">>),
     Qualified("ns", "", docdb, <<"1">>)}

InitNs == InitOf(NsKinds, {"", "ns"}, MaxDocIds, 1, MaxGroups)

SpecNs == InitNs /\ [][Next]_vars

\* The load-source values of the priority inputs: the five known spellings
\* in several cases and paddings, and values that are none of them.
EPO_upper == <<"E", "P", "O">>
docdb_padded == <<" ", "D", "o", "c", "D", "B", "\n">>
patent_office_padded == <<"\t", "p", "a", "t", "e", "n", "t", "-", "o", "f", "f", "i", "c", "e", " ">>
patent_office_spaced == <<"p", "a", "t", "e", "n", "t", " ", "o", "f", "f", "i", "c", "e">>
blank == <<" ">>

\* The document-id elements of the priority inputs; those of unknown source
\* have the doc-numbers that sort first as strings.
SourceKinds ==
    {Plain(epo, <<"2">>), Plain(EPO_upper, <<"2", "1">>), Plain(docdb, <<"2", "2">>),
     Plain(docdb_padded, <<"3">>),
     Plain(patent_office_hyphen, <<"1", "2">>), Plain(patent_office_mixed, <<"1", "3">>),
     Plain(patentoffice, <<"1", "4">>), Plain(patent_office_padded, <<"1", "5">>),
     Plain(uspto, <<"1">>), Plain(patent_office_spaced, <<"1", "1">>),
     Plain(<<>>, <<"0">>), Plain(blank, <<"0", "1">>)}

InitSource == InitOf(SourceKinds, {""}, MaxFewIds, 1, 1)

SpecSource == InitSource /\ [][Next]_vars

\* The spellings of the attribute name: the four of one meaning, and two
\* that are other names.
LOAD_SOURCE_upper == <<"L", "O", "A", "D", "-", "S", "O", "U", "R", "C", "E">>
load_source_underscore == <<"l", "o", "a", "d", "_", "s", "o", "u", "r", "c", "e">>
Load_Source_capital == <<"L", "o", "a", "d", "-", "S", "o", "u", "r", "c", "e">>
loadsource == <<"l", "o", "a", "d", "s", "o", "u", "r", "c", "e">>
source == <<"s", "o", "u", "r", "c", "e">>

Spellings == {load_source_name, LOAD_SOURCE_upper, load_source_underscore, Load_Source_capital}

\* A document-id whose source attribute has the name given, before or after
\* the attribute mxw-id.
Spelled(name, first, value, text) ==
    DocumentId("",
               IF first THEN <<<<name, value>>, mxw_id>> ELSE <<mxw_id, <<name, value>>>>,
               <<DocNumber("", text)>>)

\* The document-id elements of the attribute inputs.
AttrKinds ==
    {Spelled(name, FALSE, epo, <<"2">>) : name \in Spellings \cup {loadsource, source}}
    \cup {Spelled(name, TRUE, patent_office_mixed, <<"1">>) : name \in Spellings \cup {loadsource}}

InitAttr == InitOf(AttrKinds, {""}, MaxFewIds, 1, 1)

SpecAttr == InitAttr /\ [][Next]_vars

\* The texts of the text-content inputs: no text, every string of spaces
\* and a digit up to MaxTextLen, and two with other whitespace.
Texts ==
    {None} \cup StringsUpTo({" ", "1"}, MaxTextLen)
    \cup {<<"\n", "2", "\t">>, <<"\t", "\n">>}

InitText == InitOf({Plain(epo, t) : t \in Texts}, {""}, MaxFewIds, 1, 1)

SpecText == InitText /\ [][Next]_vars

\* The document-id elements of the failing inputs: two complete ones, one of
\* an unknown source, and one whose doc-number text cannot be read.
FaultKinds ==
    {Plain(epo, <<"2">>), Plain(patent_office_hyphen, <<"1">>), Plain(uspto, <<"1", "2">>),
     Plain(docdb, Undecodable)}

InitFault == InitOf(FaultKinds, {""}, MaxDocIds, 1, MaxGroups)

SpecFault == InitFault /\ [][Next]_vars

\* A document whose application-reference holds, after its own document-id
\* elements, a second application-reference with its own.
NestedDocument(outer, inner) ==
    Element(<<"root">>, <<>>, None,
            <<Element(<<"application-reference">>, <<>>, None,
                      outer \o <<Element(<<"application-reference">>, <<>>, None, inner)>>)>>)

\* The document-id elements of the nested inputs: two complete ones and one
\* without a doc-number child.
NestedKinds ==
    {Plain(epo, <<"2">>), Plain(patent_office_hyphen, <<"1">>),
     DocumentId("", <<mxw_id, <<load_source_name, epo>>>>, <<>>)}

\* Groups within groups, each of up to MaxFewIds document-id elements.
InitNested ==
    /\ \/ file \in BadFiles
       \/ \E a \in 0..MaxFewIds, b \in 0..MaxFewIds :
             \E outer \in [1..a -> NestedKinds], inner \in [1..b -> NestedKinds] :
               file = File(TRUE, TRUE, TRUE, <<NestedDocument(outer, inner)>>)
    /\ pc = "start" /\ root = <<>> /\ application_refs = <<>> /\ app_ref = 0
    /\ document_ids = <<>> /\ doc_id = 0 /\ extracted = NoTuple
    /\ doc_number_entries = <<>> /\ result = <<>> /\ error = ""

SpecNested == InitNested /\ [][Next]_vars

\* ---------------------------------------------------------------- claims

\* C1: the list extract_doc_numbers returns is sorted ascending by the pair
\* (priority, doc-number string): of two positions i < j, either the
\* priority at i is the lower, or the priorities are equal and the doc-number
\* at i is at most the one at j in string order; so every priority-0
\* doc-number precedes every priority-1 doc-number.
SortedByPriorityThenDocNumber ==
    pc = "done" =>
        /\ result = DocNumbersOf(doc_number_entries)
        /\ \A i, j \in 1..Len(result) :
               i < j =>
                   \/ doc_number_entries[i][2] < doc_number_entries[j][2]
                   \/ /\ doc_number_entries[i][2] = doc_number_entries[j][2]
                      /\ StrLeq(result[i], result[j])

\* Three records of three priorities were returned, the last one extracted
\* being of the first priority and the first returned a longer string than
\* the second.
SortedWitness ==
    /\ pc = "done"
    /\ Len(result) = 3
    /\ {doc_number_entries[i][2] : i \in 1..3} = {0, 1, DEFAULT_PRIORITY}
    /\ extracted[2] = 0
    /\ Len(result[1]) > Len(result[2])

\* C10: extract_doc_numbers fails with FileError and returns no list when
\* the path does not exist, is not a regular file or cannot be opened for
\* reading, and then no parsing or extraction step runs.
FileErrorOnBadPath ==
    (~file.exists \/ ~file.is_file \/ ~file.can_open) =>
        /\ pc \in {"start", "failed"}
        /\ pc = "failed" => error = "FileError"
        /\ root = <<>>
        /\ application_refs = <<>>
        /\ document_ids = <<>>
        /\ extracted = NoTuple
        /\ doc_number_entries = <<>>
        /\ result = <<>>

\* The call has failed on a path that is no regular file although it can be
\* read and holds a parseable document.
FileErrorWitness ==
    /\ pc = "failed"
    /\ error = "FileError"
    /\ file.exists /\ ~file.is_file /\ file.can_open
    /\ file.tree # <<>>

\* The orders a sequence can be put in.
PermsOf(s) == {[i \in 1..Len(s) |-> s[p[i]]] : p \in Permutations(1..Len(s))}

\* The children of the groups, in document order.
RECURSIVE Flatten(_)
Flatten(groups) ==
    IF groups = <<>> THEN <<>> ELSE Head(groups).children \o Flatten(Tail(groups))

\* The groups with the elements ids as their children, each group keeping its
\* number of children.
RECURSIVE Regroup(_, _)
Regroup(groups, ids) ==
    IF groups = <<>> THEN <<>>
    ELSE LET n == Len(Head(groups).children)
         IN  <<[Head(groups) EXCEPT !.children = SubSeq(ids, 1, n)]>>
             \o Regroup(Tail(groups), SubSeq(ids, n + 1, Len(ids)))

\* The documents of the same groups and the same document-id elements as
\* tree (whose root holds groups only), in every order of both.
Rearrangements(tree) ==
    {[tree EXCEPT !.children = Regroup(groups, ids)] :
        groups \in PermsOf(tree.children), ids \in PermsOf(Flatten(tree.children))}

\* C6: extract_doc_numbers returns the same list for every permutation of the
\* document-id elements and of the application-reference groups of its
\* input: the output depends on the records, not on document order.
SameResultForEveryOrder ==
    pc = "done" => \A tree \in Rearrangements(root[1]) : ExtractFromTree(tree) = result

\* Three records were returned from two groups, the first two of one priority
\* and different doc-numbers, the last one extracted sorting first.
EveryOrderWitness ==
    /\ pc = "done"
    /\ Len(result) = 3
    /\ Len(application_refs) = 2
    /\ doc_number_entries[1][2] = doc_number_entries[2][2]
    /\ result[1] # result[2]
    /\ extracted[1] = result[1]
    /\ Cardinality(Rearrangements(root[1])) > 6

\* The elements of local name document-id.
IsDocumentId(elem) == LocalName(elem.tag) = "document-id"

\* A document-id element with no attribute that is load-source up to letter
\* case and "-" for "_".
LacksLoadSource(elem) ==
    /\ IsDocumentId(elem)
    /\ \A i \in 1..Len(elem.attrib) :
           Replace(Lower(elem.attrib[i][1]), "_", "-") # load_source_name

\* A document-id element with no child of local name doc-number.
LacksDocNumber(elem) ==
    /\ IsDocumentId(elem)
    /\ \A i \in 1..Len(elem.children) : LocalName(elem.children[i].tag) # "doc-number"

\* The tree without its document-id elements that lack a load-source
\* attribute (which = "load-source") or a doc-number child (which =
\* "doc-number").
RECURSIVE Without(_, _)
Without(elem, which) ==
    LET Drop(e) == IF which = "load-source" THEN LacksLoadSource(e) ELSE LacksDocNumber(e)
        kept == SelectSeq(elem.children, LAMBDA e : ~Drop(e))
    IN  [elem EXCEPT !.children = [i \in 1..Len(kept) |-> Without(kept[i], which)]]

\* The paths of the elements of the tree that satisfy Test.
PathsWhere(tree, Test(_)) ==
    {p \in {Iter(tree, <<>>)[i] : i \in 1..Len(Iter(tree, <<>>))} : Test(ElemAt(tree, p))}

\* C2: a document-id element without a load-source attribute contributes no
\* entry to the list returned, even with a doc-number child of non-empty
\* text; the other document-id elements are still extracted.
NoEntryWithoutLoadSource ==
    pc = "done" => result = ExtractFromTree(Without(root[1], "load-source"))

\* C8: a document-id element without a doc-number child contributes no entry
\* to the list returned and raises no error; the other document-id elements
\* are still extracted.
NoEntryWithoutDocNumber ==
    /\ parse_xml_file(file) = "" => error = ""
    /\ pc = "done" => result = ExtractFromTree(Without(root[1], "doc-number"))

\* A list of one doc-number was returned for a document of a group in which a
\* document-id without a doc-number child came before a complete one.
NoEntryWithoutDocNumberWitness ==
    /\ pc = "done"
    /\ Len(result) = 1
    /\ \E p \in PathsWhere(root[1], LacksDocNumber) :
           /\ Len(p) = 2
           /\ p[2] < Len(root[1].children[p[1]].children)

\* C9: for a parseable document with no element of local name
\* application-reference, extract_doc_numbers returns the empty list and
\* raises no error, and so it does when there are groups but no document-id
\* yields a record.
EmptyListWithoutRecords ==
    /\ parse_xml_file(file) = "" => error = ""
    /\ (pc = "done" /\ PathsWhere(root[1], LAMBDA e : LocalName(e.tag) = "application-reference") = {})
          => (result = <<>> /\ extracted = NoTuple /\ doc_number_entries = <<>>)
    /\ (pc = "done" /\ doc_number_entries = <<>>) => result = <<>>

\* The empty list was returned for a document with no group and, outside
\* any group, a document-id complete with load-source and doc-number.
EmptyListWitness ==
    /\ pc = "done"
    /\ result = <<>>
    /\ application_refs = <<>>
    /\ PathsWhere(root[1], LAMBDA e : IsDocumentId(e) /\ ~LacksLoadSource(e) /\ ~LacksDocNumber(e)) # {}

\* The tree with every tag cut to its local name: the same document written
\* without namespaces.
RECURSIVE Unqualified(_)
Unqualified(elem) ==
    [elem EXCEPT !.tag = <<LocalName(elem.tag)>>,
                 !.children = [i \in 1..Len(elem.children) |-> Unqualified(elem.children[i])]]

\* C3: the doc-number child of a document-id is found by local name: with
\* the child in a namespace, the parent in one or not, the document-id
\* contributes its doc-number as it does written without namespaces.
DocNumberFoundByLocalName ==
    pc = "done" => result = ExtractFromTree(Unqualified(root[1]))

\* The document-id element the inner loop handled last.
LastDocId == ElemAt(root[1], document_ids[doc_id - 1])

\* The value of the attribute named load-source, as written.
RawLoadSource(elem) ==
    elem.attrib[CHOOSE i \in 1..Len(elem.attrib) : elem.attrib[i][1] = load_source_name][2]

\* The priority the claim gives a load-source value.
ClaimedPriority(value) ==
    LET v == Strip(Lower(value))
    IN  IF v \in {epo, docdb} THEN 0
        ELSE IF v \in {patent_office_hyphen, patent_office_underscore, patentoffice} THEN 1
        ELSE 99

\* C4: the priority of a record is a function of its load-source value
\* lowercased and stripped: epo and docdb give 0; patent-office,
\* patent_office and patentoffice give 1; every other value gives 99, and
\* such a record is still output, after all records of priority 0 and 1.
PriorityFromLoadSource ==
    /\ (pc = "ids" /\ doc_id > 1) =>
           /\ extracted[2] = ClaimedPriority(RawLoadSource(LastDocId))
           /\ doc_number_entries # <<>>
           /\ doc_number_entries[Len(doc_number_entries)] = extracted
    /\ pc = "done" =>
           /\ Len(result) = Cardinality(PathsWhere(root[1], IsDocumentId))
           /\ \A i, j \in 1..Len(result) :
                  (doc_number_entries[i][2] = 99 /\ doc_number_entries[j][2] < 99) => j < i

\* Two records were returned, the one of an unknown source last although its
\* doc-number is the lesser string and it was extracted first, the other of
\* a padded upper-case value of the second priority.
PriorityWitness ==
    /\ pc = "done"
    /\ Len(result) = 2
    /\ doc_number_entries[1][2] = 1
    /\ doc_number_entries[2][2] = 99
    /\ StrLess(result[2], result[1])
    /\ extracted[2] = 1
    /\ RawLoadSource(root[1].children[1].children[2]) = patent_office_padded

\* The element with an attribute name of the four spellings written
\* load-source, and so its descendants.
RECURSIVE Respelled(_)
Respelled(elem) ==
    [elem EXCEPT
        !.attrib = [i \in 1..Len(elem.attrib) |->
                       IF elem.attrib[i][1] \in Spellings
                       THEN <<load_source_name, elem.attrib[i][2]>>
                       ELSE elem.attrib[i]],
        !.children = [i \in 1..Len(elem.children) |-> Respelled(elem.children[i])]]

\* C5: the lookup of load-source is insensitive to letter case and to "-"
\* for "_" in the attribute name: with the attribute spelled LOAD-SOURCE,
\* load_source, Load-Source or load-source and the same value,
\* get_normalized_attribute returns the same value and extract_doc_numbers
\* the same list.
SpellingInsensitive ==
    /\ root # <<>> =>
           \A p \in PathsWhere(root[1], IsDocumentId) :
               get_normalized_attribute(ElemAt(root[1], p), load_source_name)
                   = get_normalized_attribute(Respelled(ElemAt(root[1], p)), load_source_name)
    /\ pc = "done" => result = ExtractFromTree(Respelled(root[1]))

\* Two records were returned in the order of their priorities, from
\* attributes spelled LOAD-SOURCE and load_source.
SpellingWitness ==
    /\ pc = "done"
    /\ result = <<<<"2">>, <<"1">>>>
    /\ root[1].children[1].children[1].attrib[1][1] = load_source_underscore
    /\ root[1].children[1].children[2].attrib[2][1] = LOAD_SOURCE_upper

\* The direct text of the doc-number child of a document-id of the inputs.
DocNumberText(elem) == elem.children[2].text

\* A text that is empty or whitespace only.
IsBlank(t) == t = None \/ \A i \in 1..Len(t) : IsSpace(t[i])

\* The part of a text from its first to its last character that is no
\* whitespace.
Trimmed(t) ==
    LET Solid == {i \in 1..Len(t) : ~IsSpace(t[i])}
        lo == CHOOSE i \in Solid : \A k \in Solid : i <= k
        hi == CHOOSE i \in Solid : \A k \in Solid : k <= i
    IN  SubSeq(t, lo, hi)

\* C7: every string of the list returned is non-empty and has no leading or
\* trailing whitespace: a doc-number element whose direct text is empty or
\* whitespace only contributes no record, and any other contributes its
\* text stripped.
StrippedAndNonEmpty ==
    /\ pc = "done" =>
           \A i \in 1..Len(result) :
               /\ result[i] # None
               /\ result[i] # <<>>
               /\ ~IsSpace(result[i][1])
               /\ ~IsSpace(result[i][Len(result[i])])
    /\ (pc = "ids" /\ doc_id > 1) =>
           /\ Len(doc_number_entries) =
                  Cardinality({k \in 1..(doc_id - 1) :
                      ~IsBlank(DocNumberText(ElemAt(root[1], document_ids[k])))})
           /\ IF IsBlank(DocNumberText(LastDocId))
              THEN extracted[1] = None
              ELSE /\ extracted[1] = Trimmed(DocNumberText(LastDocId))
                   /\ doc_number_entries[Len(doc_number_entries)] = extracted

\* One record was returned for two document-id elements: the text of the
\* first is whitespace only, that of the second a digit between whitespace
\* of two kinds.
StrippedWitness ==
    /\ pc = "done"
    /\ result = <<<<"2">>>>
    /\ DocNumberText(root[1].children[1].children[1]) = <<"\t", "\n">>
    /\ DocNumberText(root[1].children[1].children[2]) = <<"\n", "2", "\t">>

\* A document-id element whose single-record extraction raises: the text of
\* its doc-number child cannot be read.
ExtractionRaises(elem) ==
    /\ IsDocumentId(elem)
    /\ \E i \in 1..Len(elem.children) :
           elem.children[i].tag = <<"doc-number">> /\ elem.children[i].text = Undecodable

\* The tree without the document-id elements whose extraction raises.
RECURSIVE WithoutRaising(_)
WithoutRaising(elem) ==
    LET kept == SelectSeq(elem.children, LAMBDA e : ~ExtractionRaises(e))
    IN  [elem EXCEPT !.children = [i \in 1..Len(kept) |-> WithoutRaising(kept[i])]]

\* C11: a failure of one element never aborts the file: when single-record
\* extraction raises for a document-id element, that element is skipped,
\* every other document-id element of every group is still processed, and
\* extract_doc_numbers returns the sorted records of the others instead of
\* raising.
PartialFailureSkipsElement ==
    /\ parse_xml_file(file) = "" => (error = "" /\ pc # "failed")
    /\ (pc = "groups" /\ app_ref > 1) => doc_id = Len(document_ids) + 1
    /\ pc = "done" =>
           /\ result = ExtractFromTree(WithoutRaising(root[1]))
           /\ Len(application_refs) > 0 => app_ref = Len(application_refs) + 1
           /\ \A i \in 1..Len(result) : result[i] # None /\ result[i] # Undecodable

\* Two records were returned in their order from two groups, the first group
\* beginning with an element whose extraction raises.
PartialFailureWitness ==
    /\ pc = "done"
    /\ result = <<<<"2">>, <<"1">>>>
    /\ Len(root[1].children) = 2
    /\ Len(root[1].children[1].children) = 2
    /\ Len(root[1].children[2].children) = 1
    /\ ExtractionRaises(root[1].children[1].children[1])
    /\ root[1].children[1].children[2] = Plain(patent_office_hyphen, <<"1">>)
    /\ root[1].children[2].children[1] = Plain(epo, <<"2">>)

\* The document-id elements below an application-reference whose
\* single-record extraction yields a record.
YieldingDocumentIds(tree) ==
    LET all == Iter(tree, <<>>)
        InGroup(p) == \E k \in 0..(Len(p) - 1) :
                         LocalName(ElemAt(tree, SubSeq(p, 1, k)).tag) = "application-reference"
    IN  {p \in {all[i] : i \in 1..Len(all)} :
            /\ IsDocumentId(ElemAt(tree, p))
            /\ InGroup(p)
            /\ Collect(<<>>, extract_doc_number_from_document_id(tree, p)) # <<>>}

\* C12: a record is produced once per document-id element that yields a
\* non-empty doc-number: for every tree shape, application-reference elements
\* nested in others included, the list returned is as long as there are
\* document-id elements that yield a record.
OneEntryPerDocumentId ==
    pc = "done" => Len(result) = Cardinality(YieldingDocumentIds(root[1]))

\* The tag names searched for: those of the documents and one of none.
TagNames == {"root", "application-reference", "document-id", "doc-number", "country", "claim"}

\* The elements of the subtree at path whose local name is tag_name.
WithLocalName(tree, path, tag_name) ==
    LET all == Iter(tree, path)
    IN  {q \in {all[i] : i \in 1..Len(all)} : LocalName(ElemAt(tree, q).tag) = tag_name}

\* The list holds each element of the set once and nothing else.
ListsEachOnce(list, set) ==
    /\ {list[i] : i \in 1..Len(list)} = set
    /\ Len(list) = Cardinality(set)

\* C13: find_elements_with_namespace_handling(root, tag) does not fail and
\* returns every element of the subtree whose local name is tag exactly
\* once, an element matched by the direct-tag pass and by the local-name
\* walk not being listed twice; the list is empty when nothing matches.
EveryLocalNameMatchOnce ==
    /\ parse_xml_file(file) = "" => error = ""
    /\ pc = "parsed" =>
           \A path \in WithLocalName(root[1], <<>>, "root")
                        \cup WithLocalName(root[1], <<>>, "application-reference")
                        \cup WithLocalName(root[1], <<>>, "document-id") :
              \A tag_name \in TagNames :
                 ListsEachOnce(find_elements_with_namespace_handling(root[1], path, tag_name),
                               WithLocalName(root[1], path, tag_name))
    /\ pc \in {"groups", "ids", "done"} =>
           ListsEachOnce(application_refs, WithLocalName(root[1], <<>>, "application-reference"))
    /\ pc = "ids" =>
           ListsEachOnce(document_ids,
                         WithLocalName(root[1], application_refs[app_ref], "document-id"))

\* The search below a group returned three document-id elements, the one
\* without a namespace, found by both passes, ahead of the namespaced one
\* that precedes it in the document.
EveryLocalNameMatchWitness ==
    /\ pc = "ids"
    /\ document_ids = <<<<1, 2>>, <<1, 1>>, <<1, 3>>>>
    /\ ElemAt(root[1], <<1, 1>>).tag = <<"{", "ns", "}", "document-id">>
    /\ ElemAt(root[1], <<1, 2>>).tag = <<"document-id">>
    /\ ElemAt(root[1], <<1>>).tag = <<"application-reference">>

====
